---------------------------- MODULE Spec2Model ----------------------------
(***************************************************************************)
(* Kabutr: LSB steganography of a password-encrypted message               *)
(* (src/helper_functions.py).                                              *)
(*                                                                         *)
(* Bytes and samples are naturals 0..255; byte strings, bit strings and    *)
(* flat sample buffers are sequences (TLA+ index i+1 is Python index i).   *)
(* Texts (messages, passwords) are sequences of Unicode code points.       *)
(*                                                                         *)
(* The code of the repository is modelled operation by operation.  The     *)
(* library calls it makes are modelled by what the libraries do:           *)
(*   - numpy unpackbits / packbits / slicing / flatten / reshape: exactly; *)
(*   - base64.urlsafe_b64encode / urlsafe_b64decode (CPython binascii,     *)
(*     non-strict mode): exactly;                                          *)
(*   - str.encode / bytes.decode (UTF-8) for code points below U+0800:     *)
(*     exactly;                                                            *)
(*   - the Fernet token layout (0x80, timestamp, IV, ciphertext, tag,      *)
(*     PKCS7 padding, base64 text): exactly;                               *)
(*   - PBKDF2-HMAC-SHA256, AES-CBC and HMAC-SHA256 as ideal primitives:    *)
(*     a derived key is the pair (HMAC key block of the password, salt),   *)
(*     so two keys are equal exactly when PBKDF2's inputs to HMAC are      *)
(*     equal; a token authenticates under a key exactly when its decoded   *)
(*     bytes are the bytes some encrypt call sealed under that key (the    *)
(*     ledger `sealed`).  The byte values of ciphertext and tag are        *)
(*     stand-ins: they matter only as the bytes the token text encodes.    *)
(***************************************************************************)
EXTENDS Integers, Sequences, FiniteSets, TLC

(***************************************************************************)
(* Generic helpers                                                         *)
(***************************************************************************)
Min(a, b) == IF a < b THEN a ELSE b

Pow2(k) == 2 ^ k

Rep(v, n) == [i \in 1..n |-> v]

\* The sequence s as an explicit tuple (the same value, computed once).
Tuple(s) == <<>> \o s

\* Python slice s[a:b] on a sequence (0-based, end exclusive, clamped as
\* numpy and bytes clamp it; a, b >= 0).
Slice(s, a, b) == SubSeq(s, Min(a, Len(s)) + 1, Min(b, Len(s)))

\* Python floor division by a positive divisor (TLA+ \div already floors).
FloorDiv(a, b) == a \div b

(***************************************************************************)
(* numpy bit packing                                                       *)
(***************************************************************************)
\* Bit k (0 = most significant) of byte b.
BitOf(b, k) == (b \div Pow2(7 - k)) % 2

\* np.unpackbits on a uint8 array: 8 bits per byte, most significant first.
UnpackBits(bytes) ==
  Tuple([i \in 1..(8 * Len(bytes)) |->
           BitOf(bytes[((i - 1) \div 8) + 1], (i - 1) % 8)])

\* np.packbits: bits packed most significant first; the last byte is padded
\* with zero bits on the right when the count is no multiple of 8.
PackBits(bits) ==
  LET len == Len(bits)
      n == (len + 7) \div 8
      B(i) == IF i <= len THEN bits[i] ELSE 0
  IN  Tuple([j \in 1..n |->
         B(8*(j-1)+1) * 128 + B(8*(j-1)+2) * 64 + B(8*(j-1)+3) * 32
       + B(8*(j-1)+4) * 16  + B(8*(j-1)+5) * 8  + B(8*(j-1)+6) * 4
       + B(8*(j-1)+7) * 2   + B(8*(j-1)+8)])

\* int.from_bytes(b, 'big'); the empty byte string gives 0.
RECURSIVE FromBytesBig(_)
FromBytesBig(b) ==
  IF b = <<>> THEN 0
  ELSE FromBytesBig(SubSeq(b, 1, Len(b) - 1)) * 256 + b[Len(b)]

\* n.to_bytes(4, 'big') for 0 <= n < 2^32.
ToBytes4Big(n) ==
  << (n \div 16777216) % 256, (n \div 65536) % 256, (n \div 256) % 256, n % 256 >>

\* n.to_bytes(8, 'big') for 0 <= n < 2^31 (a Unix time before 2038; the
\* model's integers are 32-bit).
ToBytes8Big(n) == <<0, 0, 0, 0>> \o ToBytes4Big(n)

\* int.from_bytes(b, 'big') > m, computed without forming the integer (a
\* 4-byte header can hold 2^32 - 1, beyond the model's 32-bit integers):
\* v*256 + l > m  iff  v > floor((m - l) / 256).
RECURSIVE BigGreater(_, _)
BigGreater(b, m) ==
  IF b = <<>> THEN 0 > m
  ELSE BigGreater(SubSeq(b, 1, Len(b) - 1), FloorDiv(m - b[Len(b)], 256))

\* int.from_bytes(b, 'big') <= 0.
BigIsZero(b) == \A i \in 1..Len(b) : b[i] = 0

\* flat & 1 on a sample array.
LsbOf(samples) == Tuple([i \in 1..Len(samples) |-> samples[i] % 2])

(***************************************************************************)
(* UTF-8 (code points below U+0800)                                        *)
(***************************************************************************)
\* str.encode('utf-8').
RECURSIVE Utf8Encode(_)
Utf8Encode(t) ==
  IF t = <<>> THEN <<>>
  ELSE LET c == Head(t)
       IN  (IF c < 128 THEN <<c>>
            ELSE <<192 + (c \div 64), 128 + (c % 64)>>) \o Utf8Encode(Tail(t))

Utf8Invalid == <<-1>>

\* bytes.decode('utf-8'): the text, or Utf8Invalid where Python raises
\* UnicodeDecodeError (only 1- and 2-byte forms occur in the model; any
\* other lead byte is reported invalid).
RECURSIVE Utf8Decode(_)
Utf8Decode(b) ==
  IF b = <<>> THEN <<>>
  ELSE IF b[1] < 128
       THEN LET r == Utf8Decode(Tail(b))
            IN  IF r = Utf8Invalid THEN Utf8Invalid ELSE <<b[1]>> \o r
  ELSE IF b[1] >= 194 /\ b[1] < 224 /\ Len(b) >= 2 /\ b[2] >= 128 /\ b[2] < 192
       THEN LET r == Utf8Decode(Tail(Tail(b)))
            IN  IF r = Utf8Invalid THEN Utf8Invalid
                ELSE <<(b[1] - 192) * 64 + (b[2] - 128)>> \o r
  ELSE Utf8Invalid

(***************************************************************************)
(* base64 (urlsafe alphabet), as CPython does it                           *)
(***************************************************************************)
PadChar == 61

\* The urlsafe alphabet: A-Z a-z 0-9 - _
B64Char(v) ==
  IF v < 26 THEN 65 + v
  ELSE IF v < 52 THEN 97 + (v - 26)
  ELSE IF v < 62 THEN 48 + (v - 52)
  ELSE IF v = 62 THEN 45 ELSE 95

\* base64.urlsafe_b64encode: 4 characters per 3 bytes; a last group of 1
\* or 2 bytes is filled with zero bits and padded with '='.
B64Encode(b) ==
  LET n == Len(b)
      Byte(k) == IF k <= n THEN b[k] ELSE 0
      Ch(g, k) ==
        LET b1 == Byte(3 * g + 1)
            b2 == Byte(3 * g + 2)
            b3 == Byte(3 * g + 3)
        IN  IF k = 0 THEN B64Char(b1 \div 4)
            ELSE IF k = 1 THEN B64Char((b1 % 4) * 16 + (b2 \div 16))
            ELSE IF k = 2
                 THEN (IF 3 * g + 2 > n THEN PadChar
                       ELSE B64Char((b2 % 16) * 4 + (b3 \div 64)))
            ELSE (IF 3 * g + 3 > n THEN PadChar ELSE B64Char(b3 % 64))
  IN  Tuple([c \in 1..(4 * ((n + 2) \div 3)) |->
               Ch((c - 1) \div 4, (c - 1) % 4)])

\* binascii's decoding table after urlsafe_b64decode's translation of
\* '-' to '+' and '_' to '/': the 6-bit value of a character, or 64 for a
\* character outside the alphabet ('+' and '/' stay valid).
A2B(c) ==
  IF c >= 65 /\ c <= 90 THEN c - 65
  ELSE IF c >= 97 /\ c <= 122 THEN c - 97 + 26
  ELSE IF c >= 48 /\ c <= 57 THEN c - 48 + 52
  ELSE IF c = 43 \/ c = 45 THEN 62
  ELSE IF c = 47 \/ c = 95 THEN 63
  ELSE 64

B64Error == <<-1>>

IsData(c) == A2B(c) < 64

\* binascii.a2b_base64 in non-strict mode, which reads the text left to
\* right keeping quad_pos (data characters read, modulo 4) and pads (pad
\* characters since the last data character, counted from quad_pos 2 on):
\* characters outside the alphabet are skipped; the parse ends at the first
\* '=' that completes a quad (quad_pos 3, or quad_pos 2 after another
\* '='), and whatever follows is ignored; excess bits of the last data
\* character are dropped; if the text ends inside a quad, binascii.Error is
\* raised (B64Error).
B64Decode(s) ==
  LET n       == Len(s)
      Pads    == {i \in 1..n : s[i] = PadChar}
      Quad(i) == Len(SelectSeq(SubSeq(s, 1, i - 1), IsData)) % 4
      Ends(i) == \/ Quad(i) = 3
                 \/ /\ Quad(i) = 2
                    /\ \E k \in Pads :
                         k < i /\ \A j \in (k + 1)..(i - 1) : ~IsData(s[j])
      Stops   == {i \in Pads : Ends(i)}
      stop    == IF Stops = {} THEN n + 1
                 ELSE CHOOSE i \in Stops : \A j \in Stops : i <= j
      chars   == SelectSeq(SubSeq(s, 1, stop - 1), IsData)
      m       == Len(chars)
      D(k)    == A2B(chars[k])
      nbytes  == 3 * (m \div 4)
                 + (IF m % 4 = 2 THEN 1 ELSE IF m % 4 = 3 THEN 2 ELSE 0)
      Byte(g, k) ==
        IF k = 0 THEN D(4 * g + 1) * 4 + (D(4 * g + 2) \div 16)
        ELSE IF k = 1 THEN (D(4 * g + 2) % 16) * 16 + (D(4 * g + 3) \div 4)
        ELSE (D(4 * g + 3) % 4) * 64 + D(4 * g + 4)
  IN  IF Stops = {} /\ m % 4 # 0 THEN B64Error
      ELSE Tuple([b \in 1..nbytes |-> Byte((b - 1) \div 3, (b - 1) % 3)])

(***************************************************************************)
(* Program constants                                                       *)
(***************************************************************************)
\* MAGIC_HEADER = b"STG1"
MAGIC_HEADER == <<83, 84, 71, 49>>

\* os.urandom(16): the salt length, and the length decrypt_message splits at.
SaltLen == 16

\* encode's early capacity check: image.size < 64.
MinSamples == 64

\* The length header: 4 bytes, read back from the first 32 samples.
HeaderBytes == 4

HeaderBits == 32

\* Block size of SHA-256, the hash PBKDF2HMAC is built with: HMAC pads a
\* shorter key with zero bytes to this length.
HashBlockSize == 64

\* AES block size (Fernet's IV length and PKCS7 block), and HMAC-SHA256's
\* tag length.
AesBlock == 16

TagLen == 32

\* Fernet's version byte.
FernetVersion == 128

\* The three results decode_image returns on failure, and the two faults
\* encode raises.
ErrNoData == "Error: No valid steganography data found."

ErrIncomplete == "Error: Encoded data incomplete or corrupted."

ErrDecrypt == "Error: Incorrect password or corrupted data."

ErrTooSmall == "Image resolution is too small to safely encode data."

ErrTooLarge == "Message too large."

ErrDtype == "Image must be uint8 type"

ErrChannels == "Image must have 3 channels (RGB/BGR)."

(***************************************************************************)
(* Key derivation and Fernet                                               *)
(***************************************************************************)
\* The key block HMAC forms from a key: zero-padded to the hash's block
\* size; a longer key is hashed first (an ideal hash: the marker -1 and the
\* key itself).
HmacKeyBlock(k) ==
  IF Len(k) <= HashBlockSize
  THEN k \o Rep(0, HashBlockSize - Len(k))
  ELSE <<-1>> \o k

\* derive_key: PBKDF2-HMAC-SHA256 of password.encode() and the salt, as an
\* ideal function of what it feeds to HMAC.
derive_key(password, salt) ==
  [block |-> HmacKeyBlock(Utf8Encode(password)), salt |-> salt]

\* PKCS7 padding to the AES block.
Pkcs7Pad(pt) ==
  LET n == AesBlock - (Len(pt) % AesBlock) IN pt \o Rep(n, n)

\* One byte standing for the key in the stand-in ciphertext and tag values.
KeyMix(key) ==
  (key.block[1] + 3 * key.block[2] + 5 * key.block[3] + key.salt[1]) % 256

\* Stand-in for AES-128-CBC: as long as the padded plaintext.
CbcStandIn(key, iv, padded) ==
  LET k == KeyMix(key)
  IN  Tuple([j \in 1..Len(padded) |->
               (padded[j] + iv[((j - 1) % AesBlock) + 1] + k + j) % 256])

\* Stand-in for HMAC-SHA256: 32 bytes.
HmacStandIn(key, body) ==
  LET k == KeyMix(key)
      n == Len(body)
  IN  Tuple([j \in 1..TagLen |-> (body[n + 1 - j] + k * j + j) % 256])

\* The bytes of a Fernet token before base64:
\* 0x80 || timestamp(8) || IV(16) || ciphertext || HMAC(32).
FernetRaw(key, pt, iv, ts) ==
  LET body == <<FernetVersion>> \o ToBytes8Big(ts) \o iv
              \o CbcStandIn(key, iv, Pkcs7Pad(pt))
  IN  body \o HmacStandIn(key, body)

\* Fernet(key).encrypt(pt): the token text.
FernetEncrypt(key, pt, iv, ts) == B64Encode(FernetRaw(key, pt, iv, ts))

InvalidToken == <<-2>>

\* Fernet(key).decrypt(token) given the tokens sealed so far: the plaintext,
\* or InvalidToken.  The library decodes the text with urlsafe_b64decode,
\* checks the version byte and the length, then verifies the tag and
\* decrypts; with an ideal MAC the tag verifies exactly when the decoded
\* bytes are bytes sealed under this key.
FernetDecrypt(key, token, ledger) ==
  LET data == B64Decode(token)
  IN  IF data = B64Error \/ data = <<>> THEN InvalidToken
      ELSE IF data[1] # FernetVersion \/ Len(data) < 9 THEN InvalidToken
      ELSE IF \E e \in ledger : e.key = key /\ e.raw = data
           THEN (CHOOSE e \in ledger : e.key = key /\ e.raw = data).pt
      ELSE InvalidToken

\* encrypt_message: salt + token, for the salt, IV and time drawn.
encrypt_message(message, password, salt, iv, ts) ==
  salt \o FernetEncrypt(derive_key(password, salt), Utf8Encode(message), iv, ts)

\* What encrypt_message's Fernet call adds to the ledger.
SealEntry(message, password, salt, iv, ts) ==
  LET key == derive_key(password, salt)
  IN  [key |-> key, raw |-> FernetRaw(key, Utf8Encode(message), iv, ts),
       pt |-> Utf8Encode(message)]

\* A result string returned by decode_image: a failure text or a message.
Fail(e) == [ok |-> FALSE, err |-> e, text |-> <<>>]

Text(t) == [ok |-> TRUE, err |-> "", text |-> t]

\* decrypt_message: every exception (InvalidToken, UnicodeDecodeError) is
\* caught and turned into the one failure text.
decrypt_message(data, password, ledger) ==
  IF Len(data) < SaltLen THEN Fail(ErrDecrypt)
  ELSE LET salt  == Slice(data, 0, SaltLen)
           token == Slice(data, SaltLen, Len(data))
           pt    == FernetDecrypt(derive_key(password, salt), token, ledger)
       IN  IF pt = InvalidToken THEN Fail(ErrDecrypt)
           ELSE IF Utf8Decode(pt) = Utf8Invalid THEN Fail(ErrDecrypt)
           ELSE Text(Utf8Decode(pt))

(***************************************************************************)
(* Images: numpy arrays over a heap of sample buffers                      *)
(***************************************************************************)
\* An image is a handle [base, h, w, c, dtype]: the buffer it views, its
\* shape (c = 1 is a 2-D grayscale array) and its dtype.  Two handles with
\* the same base share their samples.
NoImage == [base |-> 0, h |-> 0, w |-> 0, c |-> 0, dtype |-> "none"]

\* image.size
ImgSize(img) == img.h * img.w * img.c

\* cv2.cvtColor(image, cv2.COLOR_GRAY2BGR): each gray sample three times.
Gray2Bgr(g) == Tuple([i \in 1..(3 * Len(g)) |-> g[((i - 1) \div 3) + 1]])

\* cv2.cvtColor(image, cv2.COLOR_BGRA2BGR): the alpha sample dropped.
Bgra2Bgr(a) ==
  Tuple([i \in 1..(3 * (Len(a) \div 4)) |->
           a[4 * ((i - 1) \div 3) + ((i - 1) % 3) + 1]])

\* ensure_rgb_uint8: the fault raised ("" for none), the image returned and
\* the heap after it.  A 3-channel uint8 image is returned as it is (the
\* same object); a converted image lives in a fresh buffer.
ensure_rgb_uint8(heap, image) ==
  IF image.dtype # "uint8"
  THEN [err |-> ErrDtype, img |-> NoImage, heap |-> heap]
  ELSE IF image.c = 1
  THEN [err |-> "",
        img |-> [image EXCEPT !.base = Len(heap) + 1, !.c = 3],
        heap |-> Append(heap, Gray2Bgr(heap[image.base]))]
  ELSE IF image.c = 4
  THEN [err |-> "",
        img |-> [image EXCEPT !.base = Len(heap) + 1, !.c = 3],
        heap |-> Append(heap, Bgra2Bgr(heap[image.base]))]
  ELSE IF image.c # 3
  THEN [err |-> ErrChannels, img |-> NoImage, heap |-> heap]
  ELSE [err |-> "", img |-> image, heap |-> heap]

(***************************************************************************)
(* encode                                                                  *)
(***************************************************************************)
\* Faulty variant: the threshold taken to be the 32 header bits alone.
TooSmallHeaderOnly(size) == size < HeaderBits

\* if image.size < 64
TooSmall(size) == size < MinSamples

\* payload_content = MAGIC_HEADER + encrypted_payload
PayloadContent(encrypted_payload) == MAGIC_HEADER \o encrypted_payload

\* Faulty variant: the length header counts its own 4 bytes.
FullPayloadCountsHeader(payload_content) ==
  ToBytes4Big(Len(payload_content) + HeaderBytes) \o payload_content

\* full_payload = len(payload_content).to_bytes(4, 'big') + payload_content
FullPayload(payload_content) ==
  ToBytes4Big(Len(payload_content)) \o payload_content

\* Faulty variant: >= in place of >.
OverCapacityOrEqual(needed_bits, total_bits_available) ==
  needed_bits >= total_bits_available

\* if needed_bits > total_bits_available
OverCapacity(needed_bits, total_bits_available) ==
  needed_bits > total_bits_available

\* Faulty variant: image.ravel() / image.reshape(-1), a view of the caller's buffer.
FlattenBaseView(heap, image) == image.base

\* flat_image = image.flatten(): always a copy, in a fresh buffer.
FlattenBase(heap, image) == Len(heap) + 1

\* x & 0xFE and x | b on a uint8 sample.
AndFE(x) == x - (x % 2)

OrBit(x, b) == IF b = 1 /\ x % 2 = 0 THEN x + 1 ELSE x

\* Faulty variant: the bits are ORed in without clearing the LSBs first.
EmbedBitsNoClear(flat_image, payload_bits) ==
  LET needed_bits == Len(payload_bits)
  IN  Tuple([i \in 1..Len(flat_image) |->
               IF i <= needed_bits
               THEN OrBit(flat_image[i], payload_bits[i])
               ELSE flat_image[i]])

\* Faulty variant: the mask is applied to the whole image instead of the slice.
EmbedBitsMaskAll(flat_image, payload_bits) ==
  LET needed_bits == Len(payload_bits)
  IN  Tuple([i \in 1..Len(flat_image) |->
               IF i <= needed_bits
               THEN OrBit(AndFE(flat_image[i]), payload_bits[i])
               ELSE AndFE(flat_image[i])])

\* flat_image_view = flat_image[:needed_bits]; view &= 0xFE; view |= bits:
\* the view writes through to flat_image.
EmbedBits(flat_image, payload_bits) ==
  LET needed_bits == Len(payload_bits)
  IN  Tuple([i \in 1..Len(flat_image) |->
               IF i <= needed_bits
               THEN OrBit(AndFE(flat_image[i]), payload_bits[i])
               ELSE flat_image[i]])

\* The bitstream encode embeds for a message, password and the values
\* drawn: np.unpackbits of length header + magic + salt + token.
PayloadBits(message, password, salt, iv, ts) ==
  UnpackBits(FullPayload(PayloadContent(
      encrypt_message(message, password, salt, iv, ts))))

\* One call of encode: status "ok" and the image returned, or the fault
\* raised; the heap after the call; the draws from os.urandom (the salt,
\* then Fernet's IV) and the token sealed.
encode(heap, image, message, password, salt, iv, ts) ==
  LET n == ensure_rgb_uint8(heap, image)
      raise(e, d, l) == [status |-> e, heap |-> heap, out |-> NoImage,
                         draws |-> d, seal |-> l, needed |-> 0]
  IN  IF n.err # "" THEN raise(n.err, 0, {})
      ELSE IF TooSmall(ImgSize(n.img)) THEN raise(ErrTooSmall, 0, {})
      ELSE
        LET payload_bits == PayloadBits(message, password, salt, iv, ts)
            needed_bits  == Len(payload_bits)
            entry        == SealEntry(message, password, salt, iv, ts)
        IN  IF OverCapacity(needed_bits, ImgSize(n.img))
            THEN [raise(ErrTooLarge, 2, {entry}) EXCEPT !.needed = needed_bits]
            ELSE
              LET fb == FlattenBase(n.heap, n.img)
                  h1 == IF fb > Len(n.heap)
                        THEN Append(n.heap, n.heap[n.img.base])
                        ELSE n.heap
                  h2 == [h1 EXCEPT ![fb] = EmbedBits(h1[fb], payload_bits)]
              IN  [status |-> "ok", heap |-> h2,
                   out |-> [n.img EXCEPT !.base = fb],
                   draws |-> 2, seal |-> {entry}, needed |-> needed_bits]

(***************************************************************************)
(* decode_image                                                            *)
(***************************************************************************)
\* max_payload_bytes = (len(flat_image) - 32) // 8
MaxPayloadBytes(n) == FloorDiv(n - HeaderBits, 8)

\* Faulty variant: < in place of <= (an unsigned length is never negative).
NoPayloadNever(header_bytes) == FALSE

\* if payload_length <= 0
NoPayload(header_bytes) == BigIsZero(header_bytes)

\* if payload_length > max_payload_bytes
HeaderExceeds(header_bytes, max_payload_bytes) ==
  BigGreater(header_bytes, max_payload_bytes)

\* if len(payload_bytes) < 4 or payload_bytes[:4] != MAGIC_HEADER
MagicMismatch(payload_bytes) ==
  Len(payload_bytes) < 4 \/ Slice(payload_bytes, 0, 4) # MAGIC_HEADER

NoRead == <<0, 0>>

\* One call of decode_image: the fault raised by ensure_rgb_uint8 ("" for
\* none), the string returned, and the sample ranges [lo, hi) read from the
\* flattened image for the header and for the payload.
decode_image(heap, image, password, ledger) ==
  LET n == ensure_rgb_uint8(heap, image)
  IN  IF n.err # ""
      THEN [raised |-> n.err, res |-> Fail(""), hdr |-> NoRead, pay |-> NoRead]
      ELSE
        LET flat_image   == n.heap[n.img.base]
            len          == Len(flat_image)
            header_bytes == PackBits(LsbOf(Slice(flat_image, 0, HeaderBits)))
            ret(r, p)    == [raised |-> "", res |-> r,
                             hdr |-> <<0, Min(HeaderBits, len)>>, pay |-> p]
        IN  IF NoPayload(header_bytes) THEN ret(Fail(ErrNoData), NoRead)
            ELSE IF HeaderExceeds(header_bytes, MaxPayloadBytes(len))
            THEN ret(Fail(ErrIncomplete), NoRead)
            ELSE
              LET payload_length == FromBytesBig(header_bytes)
                  end_index      == HeaderBits + payload_length * 8
              IN  IF end_index > len THEN ret(Fail(ErrIncomplete), NoRead)
                  ELSE
                    LET payload_bytes ==
                          PackBits(LsbOf(Slice(flat_image, HeaderBits, end_index)))
                        p == <<HeaderBits, end_index>>
                    IN  IF MagicMismatch(payload_bytes)
                        THEN ret(Fail(ErrNoData), p)
                        ELSE ret(decrypt_message(
                                   Slice(payload_bytes, 4, Len(payload_bytes)),
                                   password, ledger), p)

(***************************************************************************)
(* Inputs of the model                                                     *)
(***************************************************************************)
\* Writes the caller makes to a buffer after encode returned, and LSB flips
\* of a tamperer, per behaviour.
MaxWrites == 1

MaxFlips == 1

\* Messages: "hi" (2 bytes, a 992-bit bitstream), a 15-character message of
\* 16 bytes (1152 bits) and a 32-byte message (1312 bits).
MsgHi == <<104, 105>>

Msg16 == <<99, 97, 102, 233>> \o Rep(120, 11)

Msg32 == [i \in 1..32 |-> 64 + i]

Messages == {MsgHi, Msg16, Msg32}

\* Passwords: "pw", "pw" followed by U+0000, and "px".
PwA == <<112, 119>>

PwANul == <<112, 119, 0>>

PwB == <<112, 120>>

Passwords == {PwA, PwANul, PwB}

\* Values os.urandom and time.time can return (one each is enough: no
\* operation of the program draws twice into the same token).
Salts == {[i \in 1..SaltLen |-> (17 * i) % 256]}

Ivs == {[i \in 1..AesBlock |-> (29 * i + 5) % 256]}

Times == {1700000000}

\* Shapes (height, width) of 3-channel images: 3, 30, 39, 42, 63, 66, 990,
\* 993, 1002, 1149, 1152, 1311 and 1314 samples.
Shapes == { <<1, 1>>, <<2, 5>>, <<1, 13>>, <<2, 7>>, <<3, 7>>, <<2, 11>>,
            <<10, 33>>, <<1, 331>>, <<2, 167>>, <<1, 383>>, <<16, 24>>,
            <<19, 23>>, <<6, 73>> }

\* Sample contents: all 0, all 255, a mixed pattern.
Zeros(n) == Rep(0, n)

Full(n) == Rep(255, n)

Mixed(n) == [i \in 1..n |-> (7 * i + 3 * (i \div 5)) % 256]

\* A buffer whose LSBs spell the given bytes (then zeros) under fixed
\* upper bits.
Crafted(bytes, n) ==
  LET bits == UnpackBits(bytes)
      k    == Len(bits)
  IN  [i \in 1..n |-> 164 + (IF i <= k THEN bits[i] ELSE 0)]

\* Byte strings a never-encoded image may carry in its LSBs: a header of 1
\* with one byte, the magic alone, a wrong magic, the magic with a short
\* salt, the magic with a salt and a token nobody sealed, and a header
\* promising more than a small image holds.
CraftedBytes ==
  { <<0, 0, 0, 1, 83>>,
    <<0, 0, 0, 4>> \o MAGIC_HEADER,
    <<0, 0, 0, 4, 83, 84, 71, 50>>,
    <<0, 0, 0, 10>> \o MAGIC_HEADER \o <<1, 2, 3, 4, 5, 6>>,
    <<0, 0, 0, 24>> \o MAGIC_HEADER \o Rep(7, SaltLen) \o <<65, 65, 65, 65>>,
    <<0, 0, 0, 120>> }

CraftedShapes == { <<2, 7>>, <<2, 11>>, <<1, 331>> }

Bgr(shape) == [base |-> 1, h |-> shape[1], w |-> shape[2], c |-> 3,
               dtype |-> "uint8"]

\* The images a caller may hand in: [img, samples].
PlainSamples(n) == { Zeros(n), Full(n), Mixed(n) }

PlainImages ==
  UNION { { [img |-> Bgr(sh), samples |-> f] :
              f \in PlainSamples(3 * sh[1] * sh[2]) } : sh \in Shapes }

CraftedImages ==
  { [img |-> Bgr(sh), samples |-> Crafted(b, 3 * sh[1] * sh[2])] :
      sh \in CraftedShapes, b \in CraftedBytes }

\* Images ensure_rgb_uint8 converts or rejects: grayscale, BGRA, two
\* channels, 16-bit.
OtherImages ==
  { [img |-> [Bgr(<<16, 24>>) EXCEPT !.c = 1], samples |-> Mixed(384)],
    [img |-> [Bgr(<<16, 24>>) EXCEPT !.c = 4], samples |-> Mixed(1536)],
    [img |-> [Bgr(<<16, 24>>) EXCEPT !.c = 2], samples |-> Mixed(768)],
    [img |-> [Bgr(<<16, 24>>) EXCEPT !.dtype = "uint16"], samples |-> Mixed(1152)] }

Images == PlainImages \cup CraftedImages \cup OtherImages

\* The images of the tampering scenario: room for "hi" and 10 spare
\* samples, and exactly the room of the 16-byte message.
TamperImages ==
  { [img |-> Bgr(<<2, 167>>), samples |-> Full(1002)],
    [img |-> Bgr(<<16, 24>>), samples |-> Mixed(1152)] }

\* The passwords the tampered image is encoded with.
TamperPasswords == {PwA}

(***************************************************************************)
(* State                                                                   *)
(***************************************************************************)
VARIABLES
  heap,       \* the sample buffers allocated, by buffer id
  inImg,      \* the caller's image
  encStatus,  \* "none" before encode is called, then "ok" or the fault raised
  outImg,     \* the image encode returned (NoImage if none)
  call,       \* the arguments of the encode call and the values it drew
  snap,       \* the caller's samples when encode was called
  needed,     \* needed_bits of the call (0 if it never framed a payload)
  sealed,     \* the tokens Fernet sealed: [key, raw, pt]
  rngDraws,   \* draws made from os.urandom
  writes,     \* writes made by the caller after encode
  written,    \* the flat indices stored to since, through each image
  flips,      \* LSB flips made by the tamperer
  dec         \* the decode_image call made, and what it returned

vars == << heap, inImg, encStatus, outImg, call, snap, needed, sealed,
           rngDraws, writes, written, flips, dec >>

NoCall == [message |-> <<>>, password |-> <<>>, salt |-> <<>>, iv |-> <<>>,
           ts |-> 0]

NoDecode == [done |-> FALSE, handle |-> "none", password |-> <<>>,
             raised |-> "", res |-> Fail(""), hdr |-> NoRead, pay |-> NoRead,
             len |-> 0]

InitWith(images) ==
  /\ \E im \in images : heap = <<im.samples>> /\ inImg = im.img
  /\ encStatus = "none"
  /\ outImg = NoImage
  /\ call = NoCall
  /\ snap = <<>>
  /\ needed = 0
  /\ sealed = {}
  /\ rngDraws = 0
  /\ writes = 0
  /\ written = [in |-> {}, out |-> {}]
  /\ flips = 0
  /\ dec = NoDecode

Init == InitWith(Images)

TamperInit == InitWith(TamperImages)

\* The image a handle names.
Handle(hd) == IF hd = "in" THEN inImg ELSE outImg

Handles == IF encStatus = "ok" THEN {"in", "out"} ELSE {"in"}

\* The samples seen through an image.
View(img) == heap[img.base]

(***************************************************************************)
(* Actions                                                                 *)
(***************************************************************************)
\* encoded_img = encode(img, message, password), for a password of pws.
EncodeWith(pws) ==
  /\ encStatus = "none"
  /\ ~dec.done
  /\ \E m \in Messages, p \in pws, s \in Salts, iv \in Ivs, ts \in Times :
       \E r \in {encode(heap, inImg, m, p, s, iv, ts)} :
           /\ heap' = r.heap
           /\ encStatus' = r.status
           /\ outImg' = r.out
           /\ needed' = r.needed
           /\ sealed' = sealed \cup r.seal
           /\ rngDraws' = rngDraws + r.draws
           /\ call' = [message |-> m, password |-> p, salt |-> s, iv |-> iv,
                       ts |-> ts]
           /\ snap' = View(inImg)
  /\ UNCHANGED << inImg, writes, written, flips, dec >>

Encode == EncodeWith(Passwords)

TamperEncode == EncodeWith(TamperPasswords)

\* The caller stores v at flat index i (1-based) of one of its images.
Store(hd, i, v) ==
  /\ heap' = [heap EXCEPT ![Handle(hd).base][i] = v]
  /\ written' = [written EXCEPT ![hd] = @ \cup {i}]
  /\ UNCHANGED << inImg, encStatus, outImg, call, snap, needed, sealed,
                  rngDraws, dec >>

\* After encode returned or raised, the caller overwrites the first or the
\* last sample of the input or of the returned image.
Write ==
  /\ encStatus # "none"
  /\ ~dec.done
  /\ writes < MaxWrites
  /\ \E hd \in Handles :
       \E i \in {1, Len(View(Handle(hd)))} :
         Store(hd, i, 255 - View(Handle(hd))[i])
  /\ writes' = writes + 1
  /\ flips' = flips

\* A tamperer flips the LSB of one sample inside the embedded bitstream of
\* the returned image.
Flip ==
  /\ encStatus = "ok"
  /\ ~dec.done
  /\ flips < MaxFlips
  /\ \E i \in 1..needed :
       Store("out", i, LET x == View(outImg)[i]
                       IN  IF x % 2 = 0 THEN x + 1 ELSE x - 1)
  /\ flips' = flips + 1
  /\ writes' = writes

\* decoded_message = decode_image(img, password), for an image of hds.
DecodeOf(hds) ==
  /\ ~dec.done
  /\ \E hd \in hds, p \in Passwords :
       \E r \in {decode_image(heap, Handle(hd), p, sealed)} :
           dec' = [done |-> TRUE, handle |-> hd, password |-> p,
                   raised |-> r.raised, res |-> r.res, hdr |-> r.hdr,
                   pay |-> r.pay, len |-> Len(View(Handle(hd)))]
  /\ UNCHANGED << heap, inImg, encStatus, outImg, call, snap, needed, sealed,
                  rngDraws, writes, written, flips >>

Decode == DecodeOf(Handles)

\* The receiver decodes the image it was sent.
TamperDecode == encStatus = "ok" /\ DecodeOf({"out"})

Next == Encode \/ Write \/ Decode

Spec == Init /\ [][Next]_vars

TamperNext == TamperEncode \/ Flip \/ TamperDecode

TamperSpec == TamperInit /\ [][TamperNext]_vars

(***************************************************************************)
(* Properties                                                              *)
(***************************************************************************)
\* The caller's image is a 3-channel 8-bit image.
Normalized == inImg.c = 3 /\ inImg.dtype = "uint8"

Called == encStatus # "none"

\* The token and the bitstream of the encode call made.
CallToken ==
  FernetEncrypt(derive_key(call.password, call.salt), Utf8Encode(call.message),
                call.iv, call.ts)

CallBits ==
  PayloadBits(call.message, call.password, call.salt, call.iv, call.ts)

\* 32 header bits + 8 * (4 + 16 + len(token)).
FramedLen == 32 + 8 * (4 + 16 + Len(CallToken))

\* decode_image was called on the image encode returned, nothing having
\* been written to it since.
DecodedReturned ==
  dec.done /\ dec.handle = "out" /\ encStatus = "ok" /\ writes = 0 /\ flips = 0

\* The 4 header bytes spelled by the LSBs of the first 32 samples of s.
HeaderOf(s) == PackBits(LsbOf(Slice(s, 0, 32)))

\* C1. Round trip: on a normalized image, when the framed bitstream is at
\* most the sample count (equality included), encode succeeds and decoding
\* its result with the same password returns exactly the message.
RoundTrip ==
  /\ (Called /\ Normalized /\ FramedLen <= ImgSize(inImg)) => encStatus = "ok"
  /\ (DecodedReturned /\ Normalized /\ dec.password = call.password)
       => (dec.raised = "" /\ dec.res = Text(call.message))

\* C1 witness: the bitstream fills the image exactly and the message of
\* 16 bytes came back.
RoundTripWitness ==
  /\ DecodedReturned /\ Normalized /\ dec.password = call.password
  /\ FramedLen = ImgSize(inImg)
  /\ call.message = Msg16
  /\ dec.res = Text(Msg16)

\* C2. Wrong key rejection: decoding the image encode returned for a
\* normalized image with a password other than the one it was encoded with
\* returns the decode error, never a text.
WrongKeyRejected ==
  (DecodedReturned /\ Normalized /\ dec.password # call.password)
    => (dec.raised = "" /\ dec.res = Fail(ErrDecrypt))

\* C3. Decode failure uniformity: any two failing calls of decode_image
\* (on the caller's normalized image or the image encode returned, with
\* any password) return the same result.
DecodeFailuresUniform ==
  Normalized =>
  \A h1 \in Handles, h2 \in Handles, p1 \in Passwords, p2 \in Passwords :
    \A r1 \in {decode_image(heap, Handle(h1), p1, sealed)} :
      \A r2 \in {decode_image(heap, Handle(h2), p2, sealed)} :
        (r1.raised = "" /\ r2.raised = "" /\ ~r1.res.ok /\ ~r2.res.ok)
          => r1.res = r2.res

\* Nothing was written and nothing returned by a failed encode.
Untouched == outImg = NoImage /\ (writes = 0 => heap = <<snap>>)

\* C4, as stated. Capacity boundary: encode succeeds when the framed
\* bitstream is exactly as long as the sample count; when it is longer,
\* encode fails with the message-too-large error, the buffer unchanged and
\* no image returned.
CapacityBoundaryAsStated ==
  /\ (Called /\ Normalized /\ FramedLen = ImgSize(inImg)) => encStatus = "ok"
  /\ (Called /\ Normalized /\ FramedLen > ImgSize(inImg))
       => (encStatus = ErrTooLarge /\ Untouched)

\* C4, amended. The same for images of at least 64 samples (a smaller
\* image fails with the too-small error before the payload is framed).
CapacityBoundary ==
  /\ (Called /\ Normalized /\ FramedLen = ImgSize(inImg)) => encStatus = "ok"
  /\ (Called /\ Normalized /\ ImgSize(inImg) >= 64 /\ FramedLen > ImgSize(inImg))
       => (encStatus = ErrTooLarge /\ needed = FramedLen /\ Untouched)

\* C4 witness: a bitstream one bit longer than the image was refused.
CapacityBoundaryWitness ==
  /\ Called /\ Normalized
  /\ FramedLen = ImgSize(inImg) + 1
  /\ encStatus = ErrTooLarge

\* C5. Minimum image size: a normalized image of fewer than 64 samples is
\* refused with the too-small error, whatever the message and password,
\* with no draw from os.urandom, no token sealed, no payload framed and
\* nothing written or returned; an image of 64 samples or more is not
\* refused by this check.
MinimumImageSize ==
  (Called /\ Normalized) =>
     /\ ImgSize(inImg) < 64 =>
          /\ encStatus = ErrTooSmall
          /\ rngDraws = 0 /\ sealed = {} /\ needed = 0
          /\ Untouched
     /\ ImgSize(inImg) >= 64 => encStatus # ErrTooSmall

\* C5 witness: an image of 63 samples was refused.
MinimumImageSizeWitness ==
  Called /\ Normalized /\ ImgSize(inImg) = 63 /\ encStatus = ErrTooSmall

\* C6. Embedding frame: after a successful encode of n bits, sample i < n
\* of the result has bit i of the bitstream as its LSB and the upper 7
\* bits of the input sample, sample i >= n is the input sample, and the
\* result has the input's shape and sample count.
EmbeddingFrame ==
  (encStatus = "ok" /\ Normalized /\ writes = 0 /\ flips = 0) =>
    \A out \in {View(outImg)}, bits \in {CallBits} :
      /\ needed = Len(bits)
      /\ Len(out) = Len(snap)
      /\ outImg.h = inImg.h /\ outImg.w = inImg.w /\ outImg.c = inImg.c
      /\ \A i \in 1..Len(out) :
           IF i <= Len(bits)
           THEN out[i] % 2 = bits[i] /\ out[i] \div 2 = snap[i] \div 2
           ELSE out[i] = snap[i]

\* C6 witness: an encode that changed a sample inside the bitstream and
\* left odd samples beyond it.
EmbeddingFrameWitness ==
  /\ encStatus = "ok" /\ Normalized /\ writes = 0 /\ flips = 0
  /\ needed < Len(snap)
  /\ \E i \in 1..needed : View(outImg)[i] # snap[i]
  /\ snap[Len(snap)] % 2 = 1

\* C7. Tamper sensitivity: after the LSB of one sample inside the
\* embedded bitstream was flipped, decode_image with the password of the
\* encode call returns an error result.
TamperDetected ==
  (dec.done /\ dec.handle = "out" /\ flips = 1
     /\ dec.password = call.password) => ~dec.res.ok

\* C8. Length header: in the image a successful encode returns, the LSBs
\* of the first 32 samples, packed most significant bit first, are the
\* big-endian value 4 + 16 + len(token), and the next 32 LSBs spell "STG1".
LengthHeader ==
  (encStatus = "ok" /\ writes = 0 /\ flips = 0) =>
    \A out \in {View(outImg)} :
      /\ FromBytesBig(HeaderOf(out)) = 4 + 16 + Len(CallToken)
      /\ PackBits(LsbOf(Slice(out, 32, 64))) = <<83, 84, 71, 49>>

\* C8 witness: an image returned for the 32-byte message, with 160 in its
\* header.
LengthHeaderWitness ==
  /\ encStatus = "ok" /\ writes = 0 /\ flips = 0
  /\ call.message = Msg32
  /\ HeaderOf(View(outImg)) = <<0, 0, 0, 160>>

\* The image decode_image was called on is a 3-channel 8-bit image.
DecodedNormalized == dec.done /\ (dec.handle = "out" \/ Normalized)

\* The header bytes of the image decoded, and whether 32 + 8*L > N for
\* the length L they hold.
DecHeader == HeaderOf(View(Handle(dec.handle)))

DecOverruns == BigGreater(DecHeader, FloorDiv(dec.len - 32, 8))

\* What C9 says of every call: a value is returned, no sample at an index
\* >= N is read, a header of 0 gives the no-data result, and payload bits
\* are read only from 32 .. 32+8L-1 and only when that lies in the buffer.
DecodeReadsInside ==
  /\ dec.raised = ""
  /\ dec.hdr[2] <= dec.len /\ dec.pay[2] <= dec.len
  /\ BigIsZero(DecHeader) => dec.res = Fail(ErrNoData)
  /\ dec.pay # NoRead =>
       /\ ~DecOverruns
       /\ dec.pay = <<32, 32 + 8 * FromBytesBig(DecHeader)>>

\* C9, as stated. Decode header validation: the above, and whenever
\* 32 + 8*L > N the incomplete/corrupted result is returned without any
\* payload bit extracted.
HeaderValidationAsStated ==
  DecodedNormalized =>
    /\ DecodeReadsInside
    /\ DecOverruns => (dec.res = Fail(ErrIncomplete) /\ dec.pay = NoRead)

\* C9, amended. The incomplete/corrupted result is returned whenever
\* L # 0 and 32 + 8*L > N (a header of 0 gives the no-data result even in
\* a buffer of fewer than 32 samples).
HeaderValidation ==
  DecodedNormalized =>
    /\ DecodeReadsInside
    /\ BigIsZero(DecHeader) => dec.pay = NoRead
    /\ (~BigIsZero(DecHeader) /\ DecOverruns)
         => (dec.res = Fail(ErrIncomplete) /\ dec.pay = NoRead)

\* C9 witness: a buffer of 30 samples with a non-zero header was decoded
\* and the incomplete/corrupted result returned.
HeaderValidationWitness ==
  /\ DecodedNormalized /\ dec.len = 30
  /\ ~BigIsZero(DecHeader)
  /\ dec.res = Fail(ErrIncomplete)

\* C10. The caller's buffer is never mutated: whatever encode's outcome
\* on a normalized image, every sample of the caller's buffer that the
\* caller did not store to itself is the sample it passed; the image
\* returned views another buffer, so a store through the returned image
\* does not show in the caller's buffer, and a store through the caller's
\* image does not show in the returned one (whose samples keep the upper
\* 7 bits encode gave them wherever the returned image was not stored to).
CallerBufferIntact ==
  (Called /\ Normalized) =>
    /\ Len(View(inImg)) = Len(snap)
    /\ \A i \in 1..Len(snap) :
         i \notin written.in => View(inImg)[i] = snap[i]
    /\ encStatus = "ok" =>
         /\ outImg.base # inImg.base
         /\ \A i \in 1..Len(snap) :
              i \notin written.out =>
                View(outImg)[i] \div 2 = snap[i] \div 2

\* C10 witness: after a successful encode the caller stored through the
\* returned image, changing a sample's upper bits there.
CallerBufferIntactWitness ==
  /\ Called /\ Normalized /\ encStatus = "ok"
  /\ written.out # {} /\ written.in = {}
  /\ \E i \in written.out : View(outImg)[i] \div 2 # snap[i] \div 2

=============================================================================
